---- MODULE Spec2Model ----
(***************************************************************************)
(* A model of facebookinsights/graph.py: the Selection query builder, its  *)
(* two specialisations PostSelection and InsightsSelection, and the lazy   *)
(* item access on top of get().                                            *)
(*                                                                         *)
(* Python dictionaries are functions whose DOMAIN is the set of keys, and  *)
(* they live in a heap of dictionaries addressed by position, so that two  *)
(* Selections sharing one dictionary is a state the model can express.     *)
(* Instants are integers (seconds); a date as the caller writes it is a    *)
(* pair <<day, second of the day>>, and None is the empty tuple.           *)
(***************************************************************************)
EXTENDS Integers, Sequences, FiniteSets, TLC

VARIABLES
    heap,       \* the dictionaries: heap[a] is the dict at address a
    sels,       \* the Selection objects created so far: [cls, meta, params]
    cache,      \* per Selection: the _results attribute of __iter__
    fetches,    \* per Selection: how many times get() ran on it (history)
    ranged,     \* per Selection: range()/since() was called in its chain (history)
    asked,      \* per Selection: the metrics argument its chain last gave (history)
    last        \* what the most recent call did and returned

vars == <<heap, sels, cache, fetches, ranged, asked, last>>

---------------------------------------------------------------------------
(* Bounds of the model.                                                    *)

MaxSel == 3
MaxFetch == 2
MaxPages == 2
MaxItems == 2
MaxValue == 2
MaxDatasets == 2

---------------------------------------------------------------------------
(* The date collaborator (utils.date) and the clock.                       *)

None == <<>>

DaySeconds == 60 * 60 * 24

COMMON_ERA == 0

Day(n) == <<n, 0>>

\* the wall clock read by datetime.now() and datetime.today()
Now == Day(3)

\* utils.date.parse_utc: a date as written -> instant
ParseUtc(d) == d[1] * DaySeconds + d[2]

\* utils.date.timestamp: a date as written -> numeric API timestamp
Timestamp(d) == d[1] * DaySeconds + d[2]

\* utils.date.parse: a server timestamp -> instant
Parse(d) == d[1] * DaySeconds + d[2]

---------------------------------------------------------------------------
(* Dictionaries and the Selection base class.                              *)

\* d[k] = v on the dictionary at address a
Put(h, a, k, v) == [h EXCEPT ![a] = (k :> v) @@ @]

MetaInit == ("since" :> COMMON_ERA) @@ ("until" :> ParseUtc(Now))

ParamsInit == ("page" :> FALSE)

\* Selection.__init__: two fresh dictionaries
NewSelection(h, cls) ==
    [heap |-> h \o <<MetaInit, ParamsInit>>,
     sel  |-> [cls |-> cls, meta |-> Len(h) + 1, params |-> Len(h) + 2]]

\* a clone that keeps the receiver's dictionaries instead of copying them
CloneAliased(h, s) == [heap |-> h, sel |-> s]

\* Selection.clone: a new object of the same class whose meta and params
\* are copies (copy.copy) of the receiver's
Clone(h, s) ==
    [heap |-> h \o <<h[s.meta], h[s.params]>>,
     sel  |-> [cls |-> s.cls, meta |-> Len(h) + 1, params |-> Len(h) + 2]]

\* the @immutable decorator: the method's body runs on a clone of the
\* receiver, and the clone is what the call returns
Immutable(h, s) == Clone(h, s)

\* range() that forgets to switch pagination on
RangeBodyNoPage(h, s, arg) ==
    LET until == IF arg[2] = None THEN Now ELSE arg[2]
        h1 == Put(h, s.meta, "since", ParseUtc(arg[1]))
        h2 == Put(h1, s.meta, "until", ParseUtc(until))
        h4 == Put(h2, s.params, "since", Timestamp(arg[1]))
        h5 == Put(h4, s.params, "until", Timestamp(until))
    IN  [heap |-> h5, sel |-> s]

\* Selection.range(since, until=None), arg = <<since, until>>
RangeBody(h, s, arg) ==
    LET until == IF arg[2] = None THEN Now ELSE arg[2]
        h1 == Put(h, s.meta, "since", ParseUtc(arg[1]))
        h2 == Put(h1, s.meta, "until", ParseUtc(until))
        h3 == Put(h2, s.params, "page", TRUE)
        h4 == Put(h3, s.params, "since", Timestamp(arg[1]))
        h5 == Put(h4, s.params, "until", Timestamp(until))
    IN  [heap |-> h5, sel |-> s]

\* Selection.range as callers see it, under @immutable
Range(h, s, arg) == LET c == Immutable(h, s) IN RangeBody(c.heap, c.sel, arg)

\* Selection.since(date): self.range(date), on the clone @immutable made
SinceBody(h, s, date) == Range(h, s, <<date, None>>)

Since(h, s, date) == LET c == Immutable(h, s) IN SinceBody(c.heap, c.sel, date)

\* PostSelection.latest(n)
LatestBody(h, s, n) == [heap |-> Put(h, s.params, "limit", n), sel |-> s]

Latest(h, s, n) == LET c == Immutable(h, s) IN LatestBody(c.heap, c.sel, n)

---------------------------------------------------------------------------
(* InsightsSelection: the period builders and the metrics helper.          *)
(* A metrics argument is None, a bare name or a list of names.             *)

NoMetrics == [kind |-> "none"]
Bare(m) == [kind |-> "name", name |-> m]
List(ms) == [kind |-> "list", names |-> ms]

\* the truth value of `ids`
Truthy(ids) ==
    CASE ids.kind = "none" -> FALSE
      [] ids.kind = "name" -> TRUE
      [] ids.kind = "list" -> ids.names # <<>>

\* a metrics helper that takes every argument for a list
MetricsAlwaysList(h, s, ids) ==
    IF Truthy(ids)
    THEN LET names == IF ids.kind = "list" THEN ids.names ELSE <<ids.name>>
             h1 == Put(h, s.meta, "single", FALSE)
         IN  [heap |-> Put(h1, s.meta, "metrics", names), sel |-> s]
    ELSE [heap |-> h, sel |-> s]

\* InsightsSelection._metrics(ids)
Metrics(h, s, ids) ==
    IF Truthy(ids)
    THEN LET names == IF ids.kind = "list" THEN ids.names ELSE <<ids.name>>
             h1 == Put(h, s.meta, "single", ids.kind # "list")
         IN  [heap |-> Put(h1, s.meta, "metrics", names), sel |-> s]
    ELSE [heap |-> h, sel |-> s]

DailyBody(h, s, ids) == Metrics(Put(h, s.params, "period", "day"), s, ids)

WeeklyBody(h, s, ids) == Metrics(Put(h, s.params, "period", "week"), s, ids)

MonthlyBody(h, s, ids) == Metrics(Put(h, s.params, "period", "days_28"), s, ids)

LifetimeBody(h, s, ids) == Metrics(Put(h, s.params, "period", "lifetime"), s, ids)

Daily(h, s, ids) == LET c == Immutable(h, s) IN DailyBody(c.heap, c.sel, ids)

Weekly(h, s, ids) == LET c == Immutable(h, s) IN WeeklyBody(c.heap, c.sel, ids)

Monthly(h, s, ids) == LET c == Immutable(h, s) IN MonthlyBody(c.heap, c.sel, ids)

Lifetime(h, s, ids) == LET c == Immutable(h, s) IN LifetimeBody(c.heap, c.sel, ids)

\* InsightsSelection._has_daterange
HasDaterange(params) == "since" \in DOMAIN params \/ "until" \in DOMAIN params

---------------------------------------------------------------------------
(* The transport collaborator (utils.api.GraphAPI) as the code uses it.    *)

\* one transport call as the code issues it
Call(method, resource, subrequests, params) ==
    [method |-> method, resource |-> resource,
     subrequests |-> subrequests, params |-> params]

\* graph.get('posts', **params): with page set a lazy sequence of the feed's
\* pages, each pulled when the loop asks for it; without, the first page alone
PostPages(params, feed) ==
    IF params["page"] THEN feed
    ELSE IF feed = <<>> THEN [data |-> <<>>] ELSE feed[1]

---------------------------------------------------------------------------
(* PostSelection.get.                                                      *)

\* Post.__init__, the fields get() reads
Post(raw) == [id |-> raw.id, created_time |-> Parse(raw.created_time)]

\* a range test that leaves out a post created exactly at `since`
AcceptsStrict(post, since) == post.created_time > since

\* the range test of the loop
Accepts(post, since) == post.created_time >= since

RECURSIVE ScanItems(_, _, _, _)
\* the inner loop over one page: stop tells that an item fell below since
ScanItems(data, j, since, posts) ==
    IF j > Len(data) THEN [posts |-> posts, stop |-> FALSE]
    ELSE LET post == Post(data[j]) IN
         IF Accepts(post, since)
         THEN ScanItems(data, j + 1, since, Append(posts, post))
         ELSE [posts |-> posts, stop |-> TRUE]

RECURSIVE ScanPages(_, _, _, _)
\* the outer loop: pulled counts the pages taken from the transport
ScanPages(pages, i, since, posts) ==
    IF i > Len(pages) THEN [posts |-> posts, pulled |-> Len(pages)]
    ELSE LET r == ScanItems(pages[i].data, 1, since, posts) IN
         IF r.stop THEN [posts |-> r.posts, pulled |-> i]
         ELSE ScanPages(pages, i + 1, since, r.posts)

PostGet(meta, params, feed) ==
    LET got == PostPages(params, feed)
        pages == IF ~params["page"] THEN <<got>> ELSE got
        r == ScanPages(pages, 1, meta["since"], <<>>)
    IN  [outcome |-> "ok", shape |-> "posts", result |-> r.posts,
         calls |-> <<Call("get", "posts", <<>>, params)>>,
         pulled |-> r.pulled]

---------------------------------------------------------------------------
(* InsightsSelection.get.                                                  *)

MaxDays == 31 * 3

\* rounding down instead of up
Floor(a, b) == a \div b

\* math.ceil(a / b) for b > 0
Ceil(a, b) == -((-a) \div b)

Days(meta, params) ==
    IF HasDaterange(params)
    THEN Ceil(meta["until"] - meta["since"], DaySeconds)
    ELSE 3

\* the sub-requests of the batched call, one per metric
Subrequests(metrics) ==
    [k \in DOMAIN metrics |-> [relative_url |-> metrics[k]]]

InsightsCalls(meta, params) ==
    IF "metrics" \in DOMAIN meta
    THEN <<Call("all", "insights", Subrequests(meta["metrics"]), params)>>
    ELSE <<Call("get", "insights", <<>>, params)>>

RECURSIVE Datasets(_)
\* datasets.extend(result['data']) over the results
Datasets(results) ==
    IF results = <<>> THEN <<>>
    ELSE results[1].data \o Datasets(Tail(results))

\* fields = ['end_time'] followed by one append per dataset
Fields(datasets) ==
    <<"end_time">> \o [k \in DOMAIN datasets |-> datasets[k].name]

LifetimeBucket == <<"lifetime">>

At(instant) == <<"at", instant>>

\* the key of a row's time bucket
Bucket(row) ==
    IF "end_time" \in DOMAIN row THEN At(Parse(row.end_time)) ELSE LifetimeBucket

EmptyDict == [x \in {} |-> 0]

RECURSIVE AddRows(_, _, _, _)
\* data.setdefault(end_time, {})[metric] = value, row after row
AddRows(data, metric, rows, j) ==
    IF j > Len(rows) THEN data
    ELSE LET b == Bucket(rows[j])
             old == IF b \in DOMAIN data THEN data[b] ELSE EmptyDict
         IN  AddRows((b :> ((metric :> rows[j].value) @@ old)) @@ data,
                     metric, rows, j + 1)

RECURSIVE Pivot(_, _, _)
Pivot(data, datasets, k) ==
    IF k > Len(datasets) THEN data
    ELSE Pivot(AddRows(data, datasets[k].name, datasets[k].values, 1),
               datasets, k + 1)

\* namedtuple('Row', fields) rejects a field name given twice
ShapeOk(fields) ==
    \A i, j \in DOMAIN fields : fields[i] = fields[j] => i = j

\* Row(end_time=time, **values) needs a value for every field
RowOk(fields, values) ==
    \A k \in DOMAIN fields : fields[k] = "end_time" \/ fields[k] \in DOMAIN values

Row(time, values) == ("end_time" :> time) @@ values

\* [getattr(row, metric) for row in rows] with metric = metrics[0]
Simplify(rows, metrics) == [k \in DOMAIN rows |-> rows[k][metrics[1]]]

\* get() left by an exception; fields is the list as far as it was built
Failed(outcome, days, calls, fields) ==
    [outcome |-> outcome, shape |-> "none", result |-> <<>>, calls |-> calls,
     pulled |-> 0, days |-> days, fields |-> fields]

\* results: what the transport answers; order: the order in which the
\* dictionary of buckets is iterated (data.items())
InsightsGet(meta, params, results, order) ==
    LET days == Days(meta, params)
        calls == InsightsCalls(meta, params)
        datasets == Datasets(results)
        fields == Fields(datasets)
        data == Pivot(EmptyDict, datasets, 1)
        rows == [k \in DOMAIN order |-> Row(order[k], data[order[k]])]
    IN  IF days > MaxDays THEN Failed("NotImplementedError", days, <<>>, <<>>)
        ELSE IF ~ShapeOk(fields) THEN Failed("ValueError", days, calls, fields)
        ELSE IF \E k \in DOMAIN order : ~RowOk(fields, data[order[k]])
             THEN Failed("TypeError", days, calls, fields)
        ELSE IF "single" \notin DOMAIN meta THEN Failed("KeyError", days, calls, fields)
        ELSE IF meta["single"]
             THEN IF rows # <<>> /\ \A k \in DOMAIN fields : fields[k] # meta["metrics"][1]
                  THEN Failed("AttributeError", days, calls, fields)
                  ELSE [outcome |-> "ok", shape |-> "values",
                        result |-> Simplify(rows, meta["metrics"]),
                        calls |-> calls, pulled |-> 0, days |-> days,
                        fields |-> fields]
             ELSE [outcome |-> "ok", shape |-> "rows", result |-> rows,
                   calls |-> calls, pulled |-> 0, days |-> days,
                   fields |-> fields]

---------------------------------------------------------------------------
(* What callers pass in and what the transport may answer.                 *)

MetricNames == {"a", "b"}

MetricArgs == {NoMetrics, Bare("a"), List(<<"a">>), List(<<"a", "b">>)}

\* the spans of the range check: since is day 1; until is left out, or
\* falls before since, or 90, 93, 93 days and a second, or 100 days after
Sinces == {Day(1)}

Untils == {None, Day(0), Day(91), Day(94), <<94, 1>>, Day(101)}

Limits == {1, 2}

\* creation times of the posts of a feed, around the lower bound
FeedSinces == {Day(2)}

FeedUntils == {None, Day(1)}

FeedTimes == {Day(1), Day(2), Day(3)}

SeqsUpTo(S, n) == UNION {[1..k -> S] : k \in 0..n}

RECURSIVE Offset(_, _)
\* how many items the pages before page p hold
Offset(tss, p) == IF p <= 1 THEN 0 ELSE Offset(tss, p - 1) + Len(tss[p - 1])

\* the feed whose pages hold posts created at the times tss, numbered in
\* feed order
Feed(tss) ==
    [p \in DOMAIN tss |->
        [data |-> [j \in DOMAIN tss[p] |->
            [id |-> Offset(tss, p) + j, created_time |-> tss[p][j]]]]]

\* the server lists the posts of a feed newest first
NewestFirst(items) ==
    \A j \in 1..(Len(items) - 1) :
        Parse(items[j].created_time) >= Parse(items[j + 1].created_time)

RECURSIVE Items(_)
\* all raw items of a feed, in feed order
Items(feed) == IF feed = <<>> THEN <<>> ELSE feed[1].data \o Items(Tail(feed))

Feeds ==
    {f \in {Feed(tss) : tss \in SeqsUpTo(SeqsUpTo(FeedTimes, MaxItems), MaxPages)} :
        NewestFirst(Items(f))}

PostAnswers == {[feed |-> f] : f \in Feeds}

Values == 1..MaxValue

\* the series one dataset may carry: nothing, one lifetime total, or one
\* value per end_time for some of the days 1 and 2
ValueLists ==
    {<<>>}
    \cup {<<[value |-> v]>> : v \in Values}
    \cup {<<[value |-> v, end_time |-> t]>> : v \in Values, t \in {Day(1), Day(2)}}
    \cup {<<[value |-> v, end_time |-> Day(1)], [value |-> w, end_time |-> Day(2)]>> :
              v \in Values, w \in Values}

DatasetsNamed(names) == {[name |-> m, values |-> vs] : m \in names, vs \in ValueLists}

RECURSIVE Total(_)
Total(results) == IF results = <<>> THEN 0 ELSE Len(results[1].data) + Total(Tail(results))

\* the answers to a batch with one sub-request per metric of ms: one result
\* per sub-request, in order, holding datasets of that metric
BatchResults(ms) ==
    {r \in [DOMAIN ms -> {[data |-> d] : d \in SeqsUpTo(DatasetsNamed(MetricNames), MaxDatasets)}] :
        /\ Total(r) <= MaxDatasets
        /\ \A k \in DOMAIN ms : \A j \in DOMAIN r[k].data : r[k].data[j].name = ms[k]}

\* the answers to the single call for all metrics
PlainResults ==
    {<<[data |-> d]>> : d \in SeqsUpTo(DatasetsNamed(MetricNames), MaxDatasets)}

MetricLists == {<<"a">>, <<"a", "b">>}

ResultsBy == [ms \in MetricLists |-> BatchResults(ms)]

ResultsFor(meta) ==
    IF "metrics" \in DOMAIN meta THEN ResultsBy[meta["metrics"]] ELSE PlainResults

Perms(S) == {o \in [1..Cardinality(S) -> S] : \A i, j \in DOMAIN o : o[i] = o[j] => i = j}

\* an answer and an iteration order of the buckets it fills
WithOrders(results) ==
    {[results |-> results, order |-> o] :
        o \in Perms(DOMAIN Pivot(EmptyDict, Datasets(results), 1))}

InsightsAnswers(meta) == UNION {WithOrders(r) : r \in ResultsFor(meta)}

\* a server with one fixed feed and one fixed two-day series per metric
Series(m) == [name |-> m, values |->
                <<[value |-> 1, end_time |-> Day(1)], [value |-> 2, end_time |-> Day(2)]>>]

FixedFeed == Feed(<<<<Day(3), Day(2)>>, <<Day(1)>>>>)

FixedResults(meta) ==
    IF "metrics" \in DOMAIN meta
    THEN [k \in DOMAIN meta["metrics"] |-> [data |-> <<Series(meta["metrics"][k])>>]]
    ELSE <<[data |-> <<Series("a")>>]>>

FixedAnswers(s, h) ==
    IF s.cls = "posts" THEN {[feed |-> FixedFeed]}
    ELSE WithOrders(FixedResults(h[s.meta]))

---------------------------------------------------------------------------
(* The state machine.                                                      *)

NoCache == [cached |-> FALSE, results |-> <<>>]

Init ==
    /\ heap = <<>>
    /\ sels = <<>>
    /\ cache = <<>>
    /\ fetches = <<>>
    /\ ranged = <<>>
    /\ asked = <<>>
    /\ last = [op |-> "init"]

\* a new Selection object r.sel enters the program, with the heap r.heap
Enter(r, op, from, isRanged, ids) ==
    /\ Len(sels) < MaxSel
    /\ heap' = r.heap
    /\ sels' = Append(sels, r.sel)
    /\ cache' = Append(cache, NoCache)
    /\ fetches' = Append(fetches, 0)
    /\ ranged' = Append(ranged, isRanged)
    /\ asked' = Append(asked, ids)
    /\ last' = [op |-> op, sel |-> Len(sels) + 1, from |-> from]

\* Page.posts
posts == Enter(NewSelection(heap, "posts"), "posts", 0, FALSE, NoMetrics)

\* Page.insights, Post.insights
insights == Enter(NewSelection(heap, "insights"), "insights", 0, FALSE, NoMetrics)

range(i, since_, until) ==
    Enter(Range(heap, sels[i], <<since_, until>>), "range", i, TRUE, asked[i])

since(i, date) == Enter(Since(heap, sels[i], date), "since", i, TRUE, asked[i])

latest(i, n) ==
    /\ sels[i].cls = "posts"
    /\ Enter(Latest(heap, sels[i], n), "latest", i, ranged[i], asked[i])

\* the metrics argument in force after a period call with argument ids
Given(i, ids) == IF Truthy(ids) THEN ids ELSE asked[i]

daily(i, ids) ==
    /\ sels[i].cls = "insights"
    /\ Enter(Daily(heap, sels[i], ids), "daily", i, ranged[i], Given(i, ids))

weekly(i, ids) ==
    /\ sels[i].cls = "insights"
    /\ Enter(Weekly(heap, sels[i], ids), "weekly", i, ranged[i], Given(i, ids))

monthly(i, ids) ==
    /\ sels[i].cls = "insights"
    /\ Enter(Monthly(heap, sels[i], ids), "monthly", i, ranged[i], Given(i, ids))

lifetime(i, ids) ==
    /\ sels[i].cls = "insights"
    /\ Enter(Lifetime(heap, sels[i], ids), "lifetime", i, ranged[i], Given(i, ids))

RECURSIVE Sum(_)
Sum(q) == IF q = <<>> THEN 0 ELSE q[1] + Sum(Tail(q))

\* self.get() of the Selection's class, the transport answering ans
RunGet(s, ans) ==
    IF s.cls = "posts"
    THEN PostGet(heap[s.meta], heap[s.params], ans.feed)
    ELSE InsightsGet(heap[s.meta], heap[s.params], ans.results, ans.order)

\* the part of the answer the call consumed
Seen(out, ans) == IF out.calls = <<>> THEN [unused |-> TRUE] ELSE ans

\* an explicit s.get()
get(i, ans) ==
    /\ Sum(fetches) < MaxFetch
    /\ LET out == RunGet(sels[i], ans) IN
        /\ fetches' = [fetches EXCEPT ![i] = @ + 1]
        /\ last' = [op |-> "get", sel |-> i, ran |-> TRUE, out |-> out,
                    answer |-> Seen(out, ans)]
    /\ UNCHANGED <<heap, sels, cache, ranged, asked>>

\* Selection.__getitem__: s[key], key counted from 0
getitem(i, key, ans) ==
    /\ Sum(fetches) < MaxFetch
    /\ LET out == RunGet(sels[i], ans) IN
        /\ fetches' = [fetches EXCEPT ![i] = @ + 1]
        /\ last' = [op |-> "getitem", sel |-> i, ran |-> TRUE, out |-> out,
                    answer |-> Seen(out, ans), key |-> key,
                    item |-> IF out.outcome # "ok" THEN <<>>
                             ELSE IF key + 1 \in DOMAIN out.result
                                  THEN <<out.result[key + 1]>>
                                  ELSE <<"IndexError">>]
    /\ UNCHANGED <<heap, sels, cache, ranged, asked>>

\* Selection.__iter__: iter(s)
iter(i, ans) ==
    IF cache[i].cached
    THEN /\ last' = [op |-> "iter", sel |-> i, ran |-> FALSE,
                     items |-> cache[i].results]
         /\ UNCHANGED <<heap, sels, cache, fetches, ranged, asked>>
    ELSE /\ Sum(fetches) < MaxFetch
         /\ LET out == RunGet(sels[i], ans) IN
             /\ fetches' = [fetches EXCEPT ![i] = @ + 1]
             /\ cache' = IF out.outcome = "ok"
                         THEN [cache EXCEPT ![i] = [cached |-> TRUE, results |-> out.result]]
                         ELSE cache
             /\ last' = [op |-> "iter", sel |-> i, ran |-> TRUE, out |-> out,
                         answer |-> Seen(out, ans), items |-> out.result]
         /\ UNCHANGED <<heap, sels, ranged, asked>>

\* the factories and every builder, on every Selection there is
NextBuild ==
    \/ posts
    \/ insights
    \/ \E i \in DOMAIN sels, s \in Sinces, u \in {None, Day(91)} : range(i, s, u)
    \/ \E i \in DOMAIN sels, s \in Sinces : since(i, s)
    \/ \E i \in DOMAIN sels, n \in Limits : latest(i, n)
    \/ \E i \in DOMAIN sels, ids \in MetricArgs : daily(i, ids)
    \/ \E i \in DOMAIN sels, ids \in MetricArgs : weekly(i, ids)
    \/ \E i \in DOMAIN sels, ids \in MetricArgs : monthly(i, ids)
    \/ \E i \in DOMAIN sels, ids \in MetricArgs : lifetime(i, ids)

SpecBuild == Init /\ [][NextBuild]_vars

\* item access, s[key] and iter(s), against the fixed server
NextAccess ==
    \/ \E i \in DOMAIN sels : \E ans \in FixedAnswers(sels[i], heap), key \in 0..1 :
            getitem(i, key, ans)
    \/ \E i \in DOMAIN sels : \E ans \in FixedAnswers(sels[i], heap) : iter(i, ans)

\* the whole program: building Selections and reading them
Next == NextBuild \/ NextAccess

Spec == Init /\ [][Next]_vars

\* the Selection the chain has reached
Newest == Len(sels)

\* page.posts.<builders>.get(), evaluated once, against every feed
NextPosts ==
    \/ posts
    \/ \E s \in FeedSinces, u \in FeedUntils : Newest > 0 /\ range(Newest, s, u)
    \/ \E s \in FeedSinces : Newest > 0 /\ since(Newest, s)
    \/ \E n \in Limits : Newest > 0 /\ latest(Newest, n)
    \/ Newest > 0 /\ Sum(fetches) = 0 /\ \E ans \in PostAnswers : get(Newest, ans)

SpecPosts == Init /\ [][NextPosts]_vars

\* page.insights.<builders>.get(), evaluated once, against every answer
NextInsights ==
    \/ insights
    \/ \E s \in Sinces, u \in Untils : Newest > 0 /\ range(Newest, s, u)
    \/ \E ids \in MetricArgs : Newest > 0 /\ daily(Newest, ids)
    \/ \E ids \in MetricArgs : Newest > 0 /\ weekly(Newest, ids)
    \/ \E ids \in MetricArgs : Newest > 0 /\ monthly(Newest, ids)
    \/ \E ids \in MetricArgs : Newest > 0 /\ lifetime(Newest, ids)
    \/ Newest > 0 /\ Sum(fetches) = 0
          /\ \E ans \in InsightsAnswers(heap[sels[Newest].meta]) : get(Newest, ans)

SpecInsights == Init /\ [][NextInsights]_vars

---------------------------------------------------------------------------
(* Properties.                                                             *)

MetaOf(i) == heap[sels[i].meta]

ParamsOf(i) == heap[sels[i].params]

\* the most recent call was a get() that ran on a Selection of class cls
Got(cls) == last.op = "get" /\ sels[last.sel].cls = cls

\* no dictionary belongs to two Selections, nor serves as both maps of one
NoSharing ==
    \A i, j \in DOMAIN sels :
        /\ sels[i].meta # sels[j].params
        /\ i # j => sels[i].meta # sels[j].meta /\ sels[i].params # sels[j].params

\* every Selection that exists keeps its meta and params through the step
MapsKept ==
    \A i \in DOMAIN sels :
        /\ sels'[i] = sels[i]
        /\ heap'[sels[i].meta] = heap[sels[i].meta]
        /\ heap'[sels[i].params] = heap[sels[i].params]

\* C1: no call changes the meta or params of a Selection that already
\* exists (a builder call works on a new Selection), and no two Selections
\* share meta or params storage.
C1_CloneSemantics == [](NoSharing) /\ [][MapsKept]_vars

\* C1 witness: a chain of two builder calls, range then a period call with
\* metrics, whose three Selections all differ
C1_Witness ==
    /\ Len(sels) = 3
    /\ last.op \in {"daily", "weekly", "monthly", "lifetime"} /\ last.from = 2
    /\ ranged[2] /\ ~ranged[1]
    /\ ParamsOf(1) = ParamsInit /\ MetaOf(1) = MetaInit
    /\ "period" \notin DOMAIN ParamsOf(2) /\ ParamsOf(2)["page"]
    /\ "period" \in DOMAIN ParamsOf(3) /\ "metrics" \in DOMAIN MetaOf(3)
    /\ "metrics" \notin DOMAIN MetaOf(2)

\* C2: get() runs at most once on any one Selection, whatever index
\* accesses and iteration passes are made on it.
C2_GetAtMostOnce == \A i \in DOMAIN sels : fetches[i] <= 1

\* the page of the feed that holds item n
PageOf(feed, n) ==
    CHOOSE p \in DOMAIN feed :
        LET before == Len(Items(SubSeq(feed, 1, p - 1)))
        IN  before < n /\ n <= before + Len(feed[p].data)

\* C3: on a reverse-chronological feed whose items 1..k are at or after
\* meta['since'] and whose item k+1 is before it, PostSelection.get() returns
\* exactly the posts of items 1..k in feed order, without error, and pulls
\* no page after the one that holds item k+1 (k = 0: the empty sequence).
C3_StopAtFirstOld ==
    Got("posts") =>
        LET items == Items(last.answer.feed)
            low == MetaOf(last.sel)["since"]
        IN  \A k \in 0..(Len(items) - 1) :
                (/\ NewestFirst(items)
                 /\ \A j \in 1..k : Parse(items[j].created_time) >= low
                 /\ Parse(items[k + 1].created_time) < low)
                => /\ last.out.outcome = "ok"
                   /\ Len(last.out.result) = k
                   /\ \A j \in 1..k :
                        /\ last.out.result[j].id = items[j].id
                        /\ last.out.result[j].created_time = Parse(items[j].created_time)
                   /\ last.out.pulled = PageOf(last.answer.feed, k + 1)

\* C3 witness: two posts in range, one of them created exactly at since,
\* then an older one on the first of two pages: the second page is not pulled
C3_Witness ==
    /\ Got("posts")
    /\ Len(last.answer.feed) = 2
    /\ Len(last.answer.feed[1].data) = 2
    /\ NewestFirst(Items(last.answer.feed))
    /\ Parse(last.answer.feed[1].data[1].created_time) = MetaOf(last.sel)["since"]
    /\ Parse(last.answer.feed[1].data[2].created_time) < MetaOf(last.sel)["since"]
    /\ Len(last.answer.feed[2].data) > 0
    /\ Len(last.out.result) = 1
    /\ last.out.pulled = 1

\* C4: with an explicit date range InsightsSelection.get() takes
\* days = ceil(span / 86400) and raises the range-too-large error exactly
\* when the span is more than 93 days; without one it takes days = 3 and
\* does not raise it.
C4_RangeLimit ==
    Got("insights") =>
        LET span == MetaOf(last.sel)["until"] - MetaOf(last.sel)["since"]
            raised == last.out.outcome = "NotImplementedError"
        IN  IF ranged[last.sel]
            THEN /\ last.out.days * 86400 >= span
                 /\ (last.out.days - 1) * 86400 < span
                 /\ raised <=> span > 93 * 86400
            ELSE last.out.days = 3 /\ ~raised

\* C4 witness: a span of exactly 93 days passes the check
C4_Witness ==
    /\ Got("insights")
    /\ ranged[last.sel]
    /\ MetaOf(last.sel)["until"] - MetaOf(last.sel)["since"] = 93 * 86400
    /\ last.out.days = 93
    /\ last.out.outcome # "NotImplementedError"
    /\ last.out.calls # <<>>

\* the datasets the transport returned to the most recent get()
Returned == Datasets(last.answer.results)

\* the time buckets of a dataset
BucketsOf(dataset) == {Bucket(dataset.values[j]) : j \in DOMAIN dataset.values}

\* C5: for the metric list ["a","b"], when the server returns a for two
\* buckets and b for the second of them only, get() completes with two
\* Rows, one per bucket, over the fields end_time, a, b.
C5_UnsharedBuckets ==
    (/\ Got("insights")
     /\ last.out.calls # <<>>
     /\ asked[last.sel] = List(<<"a", "b">>)
     /\ Len(Returned) = 2
     /\ Returned[1].name = "a" /\ Len(Returned[1].values) = 2
     /\ Returned[2].name = "b" /\ Len(Returned[2].values) = 1
     /\ BucketsOf(Returned[2]) \subseteq BucketsOf(Returned[1]))
    => /\ last.out.outcome = "ok"
       /\ last.out.shape = "rows"
       /\ Len(last.out.result) = 2
       /\ last.out.fields = <<"end_time", "a", "b">>

\* C6: get() on a selection for which no metrics were requested issues one
\* non-batched get for 'insights' and returns one Row per time bucket of the
\* returned datasets, without error.
C6_AllMetrics ==
    (/\ Got("insights")
     /\ asked[last.sel] = NoMetrics
     /\ last.out.outcome # "NotImplementedError")
    => /\ Len(last.out.calls) = 1
       /\ last.out.calls[1].method = "get"
       /\ last.out.calls[1].resource = "insights"
       /\ last.out.outcome = "ok"
       /\ last.out.shape = "rows"
       /\ Len(last.out.result) =
            Cardinality(UNION {BucketsOf(Returned[k]) : k \in DOMAIN Returned})

\* C7: params['page'] is true exactly on the Selections in whose chain
\* range()/since() was called, and exactly on those params holds 'since'
\* and 'until'; the others hold neither key.
C7_PageIffRange ==
    \A i \in DOMAIN sels :
        LET p == ParamsOf(i) IN
        /\ p["page"] <=> ranged[i]
        /\ p["page"] <=> ("since" \in DOMAIN p /\ "until" \in DOMAIN p)
        /\ ~p["page"] => ("since" \notin DOMAIN p /\ "until" \notin DOMAIN p)

\* C7 witness: a paged Selection made by range and then a period call, next
\* to the unpaged Selection the chain started from
C7_Witness ==
    \E i, j \in DOMAIN sels :
        /\ ranged[i] /\ ParamsOf(i)["page"] /\ "period" \in DOMAIN ParamsOf(i)
        /\ ~ranged[j] /\ ~ParamsOf(j)["page"]

\* C8: get() on a Selection whose explicit range has until before since
\* returns the empty sequence and raises nothing.
C8_EmptyRange ==
    (/\ last.op = "get"
     /\ ranged[last.sel]
     /\ MetaOf(last.sel)["until"] < MetaOf(last.sel)["since"])
    => last.out.outcome = "ok" /\ last.out.result = <<>>

\* the value dataset carries for bucket b
ValueIn(dataset, b) ==
    LET j == CHOOSE j \in DOMAIN dataset.values : Bucket(dataset.values[j]) = b
    IN  dataset.values[j].value

\* C9: built with a bare metric name m, and served at most one dataset,
\* m's, get() returns plain values: one per time bucket of that dataset,
\* each m's value at the bucket, in the order the buckets were iterated;
\* built with a list of names, also a list of one, a get() that returns
\* returns Rows.
C9_SingleMetric ==
    (Got("insights") /\ last.out.calls # <<>>) =>
        /\ (/\ asked[last.sel].kind = "name"
            /\ Len(Returned) <= 1
            /\ \A k \in DOMAIN Returned : Returned[k].name = asked[last.sel].name)
           => /\ last.out.outcome = "ok"
              /\ last.out.shape = "values"
              /\ Len(last.out.result) =
                    Cardinality(UNION {BucketsOf(Returned[k]) : k \in DOMAIN Returned})
              /\ \A n \in DOMAIN last.out.result :
                    last.out.result[n] = ValueIn(Returned[1], last.answer.order[n])
        /\ (asked[last.sel].kind = "list" /\ last.out.outcome = "ok")
           => /\ last.out.shape = "rows"
              /\ \A n \in DOMAIN last.out.result :
                    /\ DOMAIN last.out.result[n] = {"end_time"} \cup
                            {Returned[k].name : k \in DOMAIN Returned}
                    /\ last.out.result[n]["end_time"] = last.answer.order[n]

\* C9 witness: the bare metric a over two days with values 1 and 2
C9_Witness ==
    /\ Got("insights")
    /\ asked[last.sel] = Bare("a")
    /\ last.out.outcome = "ok"
    /\ last.out.shape = "values"
    /\ Returned = <<Series("a")>>
    /\ last.out.result = <<2, 1>>

RECURSIVE FirstSeen(_, _)
\* the names of a list in the order first met, each once
FirstSeen(names, seen) ==
    IF names = <<>> THEN <<>>
    ELSE IF names[1] \in seen THEN FirstSeen(Tail(names), seen)
         ELSE <<names[1]>> \o FirstSeen(Tail(names), seen \cup {names[1]})

\* C10: whatever datasets the transport returns, the field list is end_time
\* followed by the metric names in the order first met, each once, and the
\* Row shape is built from it.
C10_FieldOrder ==
    (Got("insights") /\ last.out.calls # <<>>) =>
        /\ last.out.fields =
              <<"end_time">> \o FirstSeen([k \in DOMAIN Returned |-> Returned[k].name], {})
        /\ last.out.outcome # "ValueError"

====
